---- MODULE Spec2Model ----
(***************************************************************************)
(* State-machine model of ChatLanguageModels.py: the ChatApp session       *)
(* controller (folder / database selection, submit, zero-delay timer,      *)
(* Worker thread, update_ui) and the sqlite3 files it reads and writes.    *)
(*                                                                         *)
(* Texts are sequences of characters (one-character strings), so that      *)
(* list(response) and the concatenation loop of update_ui are computed and *)
(* not assumed.  A database path is the pair <<folder, file name>>; the    *)
(* empty tuple stands for None.  Handlers that open modal dialogs are one  *)
(* action each: the only handlers the nested event loop of a dialog can    *)
(* run are update_ui and perform_long_running_task, which neither read nor *)
(* write database_folder / database_path, and the handler's own writes to  *)
(* the files happen after the last dialog has closed.                      *)
(***************************************************************************)
EXTENDS Naturals, Sequences, FiniteSets

VARIABLES
    database_folder,   \* ChatApp.database_folder: NoFolder (None), "" or a folder
    database_path,     \* ChatApp.database_path: NoPath (None) or <<folder, file>>
    conn,              \* the file ChatApp.conn / ChatApp.c are connected to, or NoPath
    message_history,   \* ChatApp.message_history
    current_prompt,    \* ChatApp.current_prompt
    timerActive,       \* long_running_task_timer.isActive()
    worker,            \* id of the Worker in ChatApp.worker: the number of Workers started
    running,           \* Workers started whose run() has not returned
    queue,             \* finished signals emitted and not yet delivered to update_ui
    disk,              \* the database files: path -> [exists, rows of table history]
    output,            \* the last text written to ChatApp.output_text
    crashed,           \* the process died of an unhandled error
    accepted,          \* history: number of submits that passed both checks
    inserted,          \* history: per file, the rows INSERTed (reset by DELETE)
    e2e,               \* history: the database created, while only exchanges followed
    expected           \* history: (prompt, result) of the exchanges since that creation

vars == <<database_folder, database_path, conn, message_history, current_prompt,
          timerActive, worker, running, queue, disk, output, crashed, accepted,
          inserted, e2e, expected>>

----------------------------------------------------------------------------
(* Bounds of the model *)

MaxSubmits == 2

Folders == {"f"}
DbNames == {"a", "b"}
Prompts == {<<"h", "i">>, <<"y">>}
Replies == {<<"w", "o">>}
Failures == {<<"t">>}

\* what datetime.datetime.now().strftime(...) returns: no handler branches on it
Times == {1}

----------------------------------------------------------------------------
(* Values *)

NoFolder == "None"
NoPath == <<>>
Paths == Folders \X DbNames

Role == <<"helpful assistant">>
Blank == <<" ">>
ErrPrefix == <<"Error generating response: ">>

\* the files an earlier session left in the folder: "a.db" holding one turn
LegacyRow == [date |-> 0, role |-> Role, content |-> <<"o">>, response |-> <<"l">>]
LegacyDisk ==
    [p \in Paths |-> IF p[2] = "a" THEN [exists |-> TRUE, rows |-> <<LegacyRow>>]
                                   ELSE [exists |-> FALSE, rows |-> <<>>]]

\* "if not self.database_folder" is false: neither None nor the empty string
FolderSet == database_folder # NoFolder /\ database_folder # ""

\* "if not self.database_path" is false
PathSet == database_path # NoPath

\* the texts written when a selection is missing
InlineErrors == {"Please select a folder first.", "Please select a database first.",
                 "No database selected."}

\* output_text.write(text): of the texts written, the model keeps those of
\* InlineErrors and holds OtherText for any other
OtherText == "..."
Write(text) == IF text \in InlineErrors THEN text ELSE OtherText

\* os.path.join(folder, f"{name}.db")
JoinPath(folder, name) == <<folder, name>>

----------------------------------------------------------------------------
(* Pure functions *)

\* list(response): a str becomes the list of its characters
ListOf(text) == [i \in 1..Len(text) |-> <<text[i]>>]

\* a variant of ErrorMessage that leaves the exception's message out
ErrorMessage_NoDetail(m) == ErrPrefix

\* the error text of Worker.run's except branch
ErrorMessage(m) == ErrPrefix \o m

\* what Worker.run emits: list(response), or [error_message]
Emitted(result) ==
    IF result.ok THEN ListOf(result.text) ELSE <<ErrorMessage(result.text)>>

\* a variant of Overall that assigns ("=") where the loop accumulates ("+=")
Overall_Assign(response) ==
    IF response = <<>> THEN <<>> ELSE response[Len(response)]

\* overall_message: the concatenation loop of update_ui
RECURSIVE Overall(_)
Overall(response) ==
    IF response = <<>> THEN <<>>
    ELSE Head(response) \o Overall(Tail(response))

\* new_message of submit_clicked
NewMessage(prompt, time) ==
    [date |-> time, role |-> Role, content |-> prompt, response |-> Blank]

\* message_info of update_ui
MessageInfo(prompt, text, time) ==
    [date |-> time, role |-> Role, content |-> prompt, response |-> text]

\* a variant of HistoryWith that completes the last entry in place
HistoryWith_InPlace(history, info) ==
    [history EXCEPT ![Len(history)] = info]

\* message_history after update_ui's append of message_info
HistoryWith(history, info) == Append(history, info)

\* a variant of LoadAll that reads the rows newest first
LoadAll_NewestFirst(file) ==
    [i \in 1..Len(file.rows) |->
        [date |-> file.rows[Len(file.rows) + 1 - i].date,
         role |-> file.rows[Len(file.rows) + 1 - i].role,
         content |-> file.rows[Len(file.rows) + 1 - i].content,
         response |-> file.rows[Len(file.rows) + 1 - i].response]]

\* SELECT * FROM history, fetchall(), and the list comprehension over the rows
LoadAll(file) ==
    [i \in 1..Len(file.rows) |->
        [date |-> file.rows[i].date, role |-> file.rows[i].role,
         content |-> file.rows[i].content, response |-> file.rows[i].response]]

\* INSERT INTO history VALUES (?, ?, ?, ?) and commit
InsertRow(file, info) ==
    [file EXCEPT !.rows = Append(@, info)]

\* a variant of DeleteAll whose DELETE is never committed
DeleteAll_NoCommit(file) == file

\* DELETE FROM history and commit
DeleteAll(file) == [file EXCEPT !.rows = <<>>]

\* sqlite3.connect(path) creating the file, CREATE TABLE IF NOT EXISTS history
Connect(file) == [file EXCEPT !.exists = TRUE]

\* the files a file dialog can pick
Existing == { p \in Paths : disk[p].exists }

\* an accepted submit whose result has not been delivered yet
Busy == timerActive \/ running # {} \/ queue # <<>>

\* Workers started that have not delivered their result
Outstanding == Cardinality(running) + Len(queue)

----------------------------------------------------------------------------
(* Initial state: ChatApp.__init__, on the disk an earlier session left *)

Init ==
    /\ database_folder = NoFolder
    /\ database_path = NoPath
    /\ conn = NoPath
    /\ message_history = <<>>
    /\ current_prompt = <<>>
    /\ timerActive = FALSE
    /\ worker = 0
    /\ running = {}
    /\ queue = <<>>
    /\ disk = LegacyDisk
    /\ output = Write("Please specify the folder and the database before the start!")
    /\ crashed = FALSE
    /\ accepted = 0
    /\ inserted = [p \in Paths |-> LegacyDisk[p].rows]
    /\ e2e = NoPath
    /\ expected = <<>>

----------------------------------------------------------------------------
(* Handlers of the UI thread *)

\* select_folder_clicked: the dialog's answer is stored before it is tested, so
\* a cancelled dialog (the empty string) replaces the folder chosen earlier
select_folder_clicked(choice) ==
    /\ ~crashed
    /\ database_folder' = choice
    /\ output' = IF choice = "" THEN output
                 ELSE Write("Selected folder: ")
    /\ UNCHANGED <<database_path, conn, message_history, current_prompt, timerActive,
                   worker, running, queue, disk, crashed, accepted, inserted, e2e,
                   expected>>

\* load_database_clicked: connect (creating the file), create the table, read all rows
load_database_clicked(path) ==
    /\ database_path' = path
    /\ conn' = path
    /\ disk' = [disk EXCEPT ![path] = Connect(@)]
    /\ message_history' = LoadAll(disk[path])
    /\ output' = Write("Using database: ")

\* select_database_clicked: sel is the file picked in the dialog, NoPath when cancelled
select_database_clicked(sel) ==
    /\ ~crashed
    /\ IF ~FolderSet
       THEN /\ output' = Write("Please select a folder first.")
            /\ UNCHANGED <<database_path, conn, message_history, disk, e2e, expected>>
       ELSE IF sel = NoPath
       THEN UNCHANGED <<database_path, conn, message_history, disk, output, e2e,
                        expected>>
       ELSE /\ load_database_clicked(sel)
            /\ e2e' = NoPath
            /\ expected' = <<>>
    /\ UNCHANGED <<database_folder, current_prompt, timerActive, worker, running,
                   queue, crashed, accepted, inserted>>

\* create_database_clicked with CreateDatabaseDialog.create_database: name is the
\* text of the dialog when it closes.  An empty name or the name of a file that
\* exists keeps the dialog open, and the dialog can then only be rejected.
create_database_clicked(name) ==
    /\ ~crashed
    /\ IF ~FolderSet
       THEN /\ output' = Write("Please select a folder first.")
            /\ UNCHANGED <<database_path, conn, message_history, disk, e2e, expected>>
       ELSE IF name = "" \/ disk[JoinPath(database_folder, name)].exists
       THEN UNCHANGED <<database_path, conn, message_history, disk, output, e2e,
                        expected>>
       ELSE /\ load_database_clicked(JoinPath(database_folder, name))
            /\ e2e' = IF Busy THEN NoPath ELSE JoinPath(database_folder, name)
            /\ expected' = <<>>
    /\ UNCHANGED <<database_folder, current_prompt, timerActive, worker, running,
                   queue, crashed, accepted, inserted>>

\* clear_database_clicked: sel is the file picked (NoPath when cancelled), yes the
\* answer to the confirmation.  database_path is set to the file picked, and no
\* connection is opened for it.
clear_database_clicked(sel, yes) ==
    /\ ~crashed
    /\ IF ~FolderSet
       THEN /\ output' = Write("Please select a folder first.")
            /\ UNCHANGED <<database_path, disk, inserted, e2e, expected>>
       ELSE IF sel = NoPath
       THEN /\ output' = Write("No database selected.")
            /\ UNCHANGED <<database_path, disk, inserted, e2e, expected>>
       ELSE /\ database_path' = sel
            /\ e2e' = NoPath
            /\ expected' = <<>>
            /\ IF yes
               THEN /\ disk' = [disk EXCEPT ![sel] = DeleteAll(@)]
                    /\ inserted' = [inserted EXCEPT ![sel] = <<>>]
                    /\ output' = Write("Database cleared.")
               ELSE /\ output' = Write("Database not cleared.")
                    /\ UNCHANGED <<disk, inserted>>
    /\ UNCHANGED <<database_folder, conn, message_history, current_prompt,
                   timerActive, worker, running, queue, crashed, accepted>>

\* a variant of SubmitRejection without the check of database_path
SubmitRejection_FolderOnly ==
    IF ~FolderSet THEN "Please select a folder first." ELSE ""

\* the two early returns of submit_clicked: the text written, "" when both pass
SubmitRejection ==
    IF ~FolderSet THEN "Please select a folder first."
    ELSE IF ~PathSet THEN "Please select a database first."
    ELSE ""

\* submit_clicked: prompt is the text of prompt_input, time the clock's reading
submit_clicked(prompt, time) ==
    /\ ~crashed
    /\ IF SubmitRejection # ""
       THEN /\ output' = Write(SubmitRejection)
            /\ UNCHANGED <<current_prompt, message_history, timerActive, accepted,
                           e2e, expected>>
       ELSE /\ accepted < MaxSubmits
            /\ output' = Write("Prompt is submitted. Wait for response generation.")
            /\ current_prompt' = prompt
            /\ message_history' = Append(message_history, NewMessage(prompt, time))
            /\ timerActive' = TRUE
            /\ accepted' = accepted + 1
            /\ e2e' = IF Busy THEN NoPath ELSE e2e
            /\ expected' = IF Busy \/ e2e = NoPath THEN <<>>
                           ELSE Append(expected, [content |-> prompt, done |-> FALSE,
                                                  result |-> [ok |-> FALSE, text |-> <<>>]])
    /\ UNCHANGED <<database_folder, database_path, conn, worker, running, queue,
                   disk, crashed, inserted>>

\* the timer after perform_long_running_task's stop()
TimerAfterTimeout == FALSE

\* perform_long_running_task and generate_response: the timeout of the zero-delay
\* timer stops the timer, replaces ChatApp.worker by a new Worker and starts it
perform_long_running_task ==
    /\ ~crashed
    /\ timerActive
    /\ timerActive' = TimerAfterTimeout
    /\ worker' = worker + 1
    /\ running' = running \cup {[id |-> worker + 1, prompt |-> current_prompt]}
    /\ UNCHANGED <<database_folder, database_path, conn, message_history,
                   current_prompt, queue, disk, output, crashed, accepted, inserted,
                   e2e, expected>>

\* what the provider call of Worker.run may do: return a text or raise
Results == [ok : {TRUE}, text : Replies] \cup [ok : {FALSE}, text : Failures]

\* Worker.run in its own thread: the provider returns a text or raises, and the
\* finished signal is queued for the UI thread.  A Worker that ChatApp.worker no
\* longer refers to is destroyed when run() returns, while its thread is still
\* running: Qt may abort the process.
WorkerRun(w, result) ==
    /\ ~crashed
    /\ w \in running
    /\ running' = running \ {w}
    /\ \/ /\ queue' = Append(queue, [id |-> w.id, prompt |-> w.prompt,
                                     result |-> result, response |-> Emitted(result)])
          /\ UNCHANGED crashed
       \/ /\ w.id # worker
          /\ crashed' = TRUE
          /\ UNCHANGED queue
    /\ UNCHANGED <<database_folder, database_path, conn, message_history,
                   current_prompt, timerActive, worker, disk, output, accepted,
                   inserted, e2e, expected>>

\* update_ui: the slot of the finished signal.  The entry is appended to the
\* history first; the INSERT fails on ChatApp.c = None, an unhandled error.
update_ui(time) ==
    /\ ~crashed
    /\ queue # <<>>
    /\ queue' = Tail(queue)
    /\ LET overall_message == Overall(Head(queue).response)
           message_info == MessageInfo(current_prompt, overall_message, time)
       IN /\ output' = OtherText   \* output_text.write(overall_message)
          /\ message_history' = HistoryWith(message_history, message_info)
          /\ IF conn = NoPath
             THEN /\ crashed' = TRUE
                  /\ UNCHANGED <<disk, inserted, expected>>
             ELSE /\ disk' = [disk EXCEPT ![conn] = InsertRow(@, message_info)]
                  /\ inserted' = [inserted EXCEPT ![conn] = Append(@, message_info)]
                  /\ expected' = IF e2e = NoPath THEN expected
                                 ELSE [expected EXCEPT ![Len(expected)] =
                                          [@ EXCEPT !.done = TRUE,
                                                    !.result = Head(queue).result]]
                  /\ UNCHANGED crashed
    /\ UNCHANGED <<database_folder, database_path, conn, current_prompt, timerActive,
                   worker, running, accepted, e2e>>

Next ==
    \/ \E choice \in Folders \cup {""} : select_folder_clicked(choice)
    \/ \E sel \in Existing \cup {NoPath} : select_database_clicked(sel)
    \/ \E name \in DbNames \cup {""} : create_database_clicked(name)
    \/ \E sel \in Existing \cup {NoPath}, yes \in BOOLEAN : clear_database_clicked(sel, yes)
    \/ \E prompt \in Prompts, time \in Times : submit_clicked(prompt, time)
    \/ perform_long_running_task
    \/ \E w \in running, result \in Results : WorkerRun(w, result)
    \/ \E time \in Times : update_ui(time)

Spec == Init /\ [][Next]_vars

----------------------------------------------------------------------------
(* Properties of the program *)

APath == <<"f", "a">>
BPath == <<"f", "b">>

\* a step that is a run of submit_clicked
SubmitStep == \E prompt \in Prompts, time \in Times : submit_clicked(prompt, time)

\* a step that is a run of update_ui
DeliveryStep == \E time \in Times : update_ui(time)

\* C1: a submit made while no folder or no database is selected starts neither
\* the timer nor a Worker and leaves the database files, the message history,
\* database_folder and database_path as they were; it writes an inline message.
C1_RejectedSubmit ==
    [][ (SubmitStep /\ (~FolderSet \/ ~PathSet))
        => /\ UNCHANGED <<timerActive, worker, running, queue, disk,
                          message_history, database_folder, database_path, conn,
                          current_prompt, accepted>>
           /\ output' \in InlineErrors ]_vars

\* C1 witness: a submit was rejected for the missing database (only
\* submit_clicked writes this text), and nothing was dispatched.
C1_Witness ==
    /\ output = "Please select a database first."
    /\ FolderSet /\ ~PathSet
    /\ ~timerActive /\ worker = 0 /\ accepted = 0

\* C2: after the creation of a new database, when the exchanges submitted one
\* after another have all completed, a fresh load of the file returns exactly
\* one turn per exchange, in order, with content = the prompt submitted and,
\* for an invocation that returned a text, response = that text.
C2_EndToEnd ==
    (e2e # NoPath /\ ~Busy)
    => LET loaded == LoadAll(disk[e2e])
       IN /\ Len(loaded) = Len(expected)
          /\ \A i \in 1..Len(expected) :
                /\ expected[i].done
                /\ loaded[i].content = expected[i].content
                /\ expected[i].result.ok
                   => loaded[i].response = expected[i].result.text

\* C2 witness: two exchanges completed one after another in a database created
\* in this session, the first with a returned text.
C2_Witness ==
    /\ e2e = BPath /\ ~Busy
    /\ Len(expected) = 2
    /\ expected[1].result.ok
    /\ Len(disk[BPath].rows) = 2

C4_LoadOrder ==
    [][ \A p \in Paths :
          load_database_clicked(p)
          => /\ Len(message_history') = Len(inserted[p])
             /\ \A i \in 1..Len(inserted[p]) : message_history'[i] = inserted[p][i]
             /\ inserted[p] # <<>>
                => message_history'[Len(message_history')] = inserted[p][Len(inserted[p])]
      ]_vars

\* C4 witness: the legacy file was loaded after a turn had been inserted into
\* it, and the history holds the legacy turn first and the inserted turn last.
C4_Witness ==
    /\ conn = APath
    /\ Len(disk[APath].rows) >= 2
    /\ message_history = disk[APath].rows
    /\ message_history[1] = LegacyRow
    /\ message_history[Len(message_history)].content \in Prompts

\* C5: after a confirmed clear of a file, a load of that file returns the empty
\* sequence; a clear answered No leaves the rows of every file unchanged.
C5_ClearThenLoad ==
    [][ \A p \in Paths :
          (FolderSet /\ disk[p].exists)
          => /\ clear_database_clicked(p, TRUE) => LoadAll(disk'[p]) = <<>>
             /\ clear_database_clicked(p, FALSE) => disk' = disk
      ]_vars

\* C5 witness: the legacy file, which held a turn, was cleared and then loaded,
\* and the history loaded is empty.
C5_Witness ==
    /\ conn = APath /\ database_path = APath
    /\ disk[APath].rows = <<>>
    /\ message_history = <<>>
    /\ accepted = 0

\* C6: at most one Worker is outstanding (started, result not yet delivered)
\* in every reachable state.
C6_AtMostOneOutstanding == Outstanding <= 1

\* C7: one Worker is started per accepted submit: once no timeout of the timer
\* is pending, as many Workers have been started as submits were accepted.
C7_OneWorkerPerSubmit == (~timerActive /\ ~crashed) => worker = accepted

\* C8: no handler ever fails with an unhandled error.
C8_NoFatal == ~crashed

C10_ReadyIsStable ==
    [][ (FolderSet /\ PathSet) => (FolderSet /\ PathSet)' ]_vars

\* C11: every row update_ui inserts has as its content the prompt of the submit
\* that dispatched the invocation whose result the row stores (the prompt the
\* Worker was started for), under every interleaving of submits and deliveries.
C11_RowPairsPromptWithItsResponse ==
    [][ (DeliveryStep /\ conn # NoPath)
        => disk'[conn].rows[Len(disk'[conn].rows)].content = Head(queue).prompt
      ]_vars

====
